---- MODULE Spec2Model ----
(***************************************************************************)
(* A model of pradist/todoapi:                                             *)
(*   - auth.Protect, the bearer-token validator (src/main.go:88-96);       *)
(*   - TodoHandler.NewTask, the POST /todos handler (src/todo/todo.go),    *)
(*     run by concurrent requests against one store;                       *)
(*   - main, the process lifecycle: signal handling and the bounded        *)
(*     graceful shutdown (src/main.go:21-78).                              *)
(* Three specifications share the variables: Spec (the handler and the     *)
(* store), AuthSpec (the validator as a function of token and configured   *)
(* secret) and LifeSpec / FairLifeSpec (the process lifecycle).            *)
(***************************************************************************)
EXTENDS Integers, Sequences, FiniteSets, TLC

VARIABLES
    \* ---- handler and store
    pc,         \* pc[r]: position of request r inside NewTask
    hdr,        \* hdr[r]: the Authorization header value of request r
    body,       \* body[r]: the request body of request r
    todo,       \* todo[r]: NewTask's local variable `todo`
    dberr,      \* dberr[r]: r.Error of the db.Create call of request r
    resp,       \* resp[r]: the response written to the caller
    bound,      \* bound[r]: ShouldBindJSON ran for request r
    attempts,   \* attempts[r]: number of db.Create calls made for request r
    store,      \* the rows of table "todos"
    returned,   \* the IDs carried by 201 responses, in response order
    \* ---- validator under a configured secret
    sign,       \* the SIGN environment value
    tok,        \* the token string handed to auth.Protect
    verdict,    \* what auth.Protect returned for tok
    \* ---- process lifecycle
    mainPc,     \* position of the main goroutine
    sigReg,     \* the NotifyContext signal registration is in force
    ctxDone,    \* ctx of signal.NotifyContext is cancelled
    listener,   \* state of the ListenAndServe goroutine
    conn,       \* conn[c]: state of connection c
    elapsed,    \* seconds since ctxTimeout was created
    exitStatus, \* exit status of the process once it has ended
    exitCause,  \* how the process ended
    atSignal,   \* the connections that were active when ctx was cancelled
    nsig        \* number of SIGINT / SIGTERM deliveries to the process

handlerVars == <<pc, hdr, body, todo, dberr, resp, bound, attempts, store, returned>>
authVars    == <<sign, tok, verdict>>
lifeVars    == <<mainPc, sigReg, ctxDone, listener, conn, elapsed, exitStatus,
                 exitCause, atSignal, nsig>>
vars        == <<handlerVars, authVars, lifeVars>>

----------------------------------------------------------------------------
(* Bounds *)

\* number of POST /todos requests issued against one handler
MaxReqs == 2
\* number of connections the listener accepts during one run of the process
MaxConns == 2
\* number of termination signals sent to the process
MaxSignals == 2

Reqs  == 1..MaxReqs
Conns == 1..MaxConns

----------------------------------------------------------------------------
(* Strings.  A string is a sequence of segments; a segment is either a     *)
(* literal piece of text or a compact signed token, carried with the       *)
(* algorithm of its header, the key its signature was made with and        *)
(* whether its registered claims (exp) are out of date.                    *)

Lit(s) == [kind |-> "lit", text |-> s, alg |-> "", key |-> "", expired |-> FALSE]

Jwt(alg, key, expired) ==
    [kind |-> "jwt", text |-> "", alg |-> alg, key |-> key, expired |-> expired]

\* the literal of src/main.go:93
HardCodedSecret == "==signature=="
OtherSecret     == "s3cret"
ThirdSecret     == "wr0ng"
Secrets         == {HardCodedSecret, OtherSecret, ThirdSecret}

Algs == {"HS256", "HS384", "HS512", "RS256", "none"}

\* token.Method.(*jwt.SigningMethodHMAC)
IsHMAC(alg) == alg \in {"HS256", "HS384", "HS512"}

\* strings.TrimPrefix(s, prefix), prefix one literal segment
TrimPrefix(s, prefix) ==
    IF Len(s) >= 1 /\ s[1] = Lit(prefix) THEN Tail(s) ELSE s

\* A mutant of Protect: the key function accepts every signing method.
ProtectAnyAlg(tokenString) ==
    IF Len(tokenString) # 1 \/ tokenString[1].kind # "jwt"
    THEN "token contains an invalid number of segments"
    ELSE IF tokenString[1].key # HardCodedSecret
    THEN "signature is invalid"
    ELSE IF tokenString[1].expired
    THEN "Token is expired"
    ELSE "nil"

\* auth.Protect: jwt.Parse with a key function that admits HMAC methods only
\* and hands out the hard-coded key.  The result is the error, "nil" for none.
Protect(tokenString) ==
    IF Len(tokenString) # 1 \/ tokenString[1].kind # "jwt"
    THEN "token contains an invalid number of segments"
    ELSE IF ~IsHMAC(tokenString[1].alg)
    THEN "unexpected signing method"
    ELSE IF tokenString[1].key # HardCodedSecret
    THEN "signature is invalid"
    ELSE IF tokenString[1].expired
    THEN "Token is expired"
    ELSE "nil"

----------------------------------------------------------------------------
(* JSON bodies.  A document is a syntax error or an object, a set of       *)
(* members; a member value is a JSON string or a JSON number.              *)

Str(k, s) == [key |-> k, type |-> "string", str |-> s, num |-> 0]
Num(k, n) == [key |-> k, type |-> "number", str |-> "", num |-> n]

BadJSON      == [syntax |-> "invalid", members |-> {}]
Object(mems) == [syntax |-> "ok", members |-> mems]

\* the zero value of type Todo
ZeroTodo == [Title |-> "", ID |-> 0]

Member(doc, k) == CHOOSE m \in doc.members : m.key = k
Has(doc, k)    == \E m \in doc.members : m.key = k

\* A mutant of ShouldBindJSON: a syntax error is swallowed and the zero
\* value is bound.
ShouldBindJSONLenient(doc) ==
    IF doc.syntax # "ok"
    THEN [err |-> "nil", todo |-> ZeroTodo]
    ELSE [err |-> "nil",
          todo |-> [Title |-> IF Has(doc, "text") THEN Member(doc, "text").str ELSE "",
                    ID    |-> IF Has(doc, "ID") THEN Member(doc, "ID").num ELSE 0]]

\* c.ShouldBindJSON(&todo): decode the body into a Todo.  `text` fills Title
\* (tag json:"text"); the promoted field ID of the embedded gorm.Model is
\* filled by a member "ID"; other members are ignored.
ShouldBindJSON(doc) ==
    IF doc.syntax # "ok"
    THEN [err |-> "invalid character", todo |-> ZeroTodo]
    ELSE IF Has(doc, "text") /\ Member(doc, "text").type # "string"
    THEN [err |-> "cannot unmarshal number into Go struct field Todo.text of type string",
          todo |-> ZeroTodo]
    ELSE IF Has(doc, "ID") /\ Member(doc, "ID").type # "number"
    THEN [err |-> "cannot unmarshal string into Go struct field Todo.ID of type uint",
          todo |-> ZeroTodo]
    ELSE [err |-> "nil",
          todo |-> [Title |-> IF Has(doc, "text") THEN Member(doc, "text").str ELSE "",
                    ID    |-> IF Has(doc, "ID") THEN Member(doc, "ID").num ELSE 0]]

----------------------------------------------------------------------------
(* The store: table "todos" behind gorm.  A row is [ID, Title]; ID is the  *)
(* primary key of the embedded gorm.Model.                                 *)

Max(S) == CHOOSE x \in S : \A y \in S : y <= x

IDs(rows) == {row.ID : row \in rows}

\* A mutant of NextID: the key is the number of rows plus one, not one more
\* than the largest key.
NextIDByCount(rows) == Cardinality(rows) + 1

\* the key the database assigns to an insert that names none
NextID(rows) == Max(IDs(rows) \cup {0}) + 1

\* t.db.Create(&todo): one INSERT.  `fail` is the collaborator refusing the
\* statement (a closed connection); a non-zero ID already present violates
\* the primary key.  On success the assigned key is written back to todo.
DbCreate(rows, t, fail) ==
    IF fail
    THEN [err |-> "sql: database is closed", rows |-> rows, todo |-> t]
    ELSE IF t.ID # 0 /\ t.ID \in IDs(rows)
    THEN [err |-> "UNIQUE constraint failed: todos.id", rows |-> rows, todo |-> t]
    ELSE LET id == IF t.ID # 0 THEN t.ID ELSE NextID(rows)
         IN  [err  |-> "nil",
              rows |-> rows \cup {[ID |-> id, Title |-> t.Title]},
              todo |-> [t EXCEPT !.ID = id]]

----------------------------------------------------------------------------
(* Requests *)

ValidToken == Jwt("HS256", HardCodedSecret, FALSE)

NoHeader == << >>

Headers ==
    { NoHeader,
      <<Lit("Bearer "), ValidToken>>,
      <<ValidToken>>,
      <<Lit("bearer "), ValidToken>>,
      <<Lit("Bearer "), Jwt("RS256", HardCodedSecret, FALSE)>>,
      <<Lit("Bearer "), Jwt("HS256", OtherSecret, FALSE)>> }

Titles == {"", "buy milk"}

\* a body of the shape {"text": S}
TextBody(s) == Object({Str("text", s)})

Bodies ==
    {BadJSON} \cup {TextBody(s) : s \in Titles}
        \cup {Object({Str("text", "x"), Num("ID", 2)}), Object({Num("text", 5)})}

NoResp == [status |-> 0, kind |-> "none", error |-> "", ID |-> 0]

\* c.AbortWithStatus(code): the status line and no body
AbortWithStatus(code) == [status |-> code, kind |-> "empty", error |-> "", ID |-> 0]

\* c.JSON(code, gin.H{"error": msg})
JSONError(code, msg) == [status |-> code, kind |-> "error", error |-> msg, ID |-> 0]

\* c.JSON(code, gin.H{"ID": id})
JSONID(code, id) == [status |-> code, kind |-> "ID", error |-> "", ID |-> id]

StatusCreated             == 201
StatusBadRequest          == 400
StatusUnauthorized        == 401
StatusInternalServerError == 500

----------------------------------------------------------------------------
(* TodoHandler.NewTask, one request per goroutine *)

\* A request arrives at the route; requests are numbered in arrival order.
Send(r) ==
    /\ pc[r] = "idle"
    /\ IF r = 1 THEN TRUE ELSE pc[r - 1] # "idle"
    /\ \E h \in Headers, b \in Bodies :
          /\ hdr'  = [hdr EXCEPT ![r] = h]
          /\ body' = [body EXCEPT ![r] = b]
    /\ pc' = [pc EXCEPT ![r] = "auth"]
    /\ UNCHANGED <<todo, dberr, resp, bound, attempts, store, returned>>
    /\ UNCHANGED <<authVars, lifeVars>>

\* todo.go:30-36
NewTaskAuth(r) ==
    /\ pc[r] = "auth"
    /\ LET tokenString == TrimPrefix(hdr[r], "Bearer ")
       IN  IF Protect(tokenString) # "nil"
           THEN /\ resp' = [resp EXCEPT ![r] = AbortWithStatus(StatusUnauthorized)]
                /\ pc' = [pc EXCEPT ![r] = "done"]
           ELSE /\ pc' = [pc EXCEPT ![r] = "bind"]
                /\ UNCHANGED resp
    /\ UNCHANGED <<hdr, body, todo, dberr, bound, attempts, store, returned>>
    /\ UNCHANGED <<authVars, lifeVars>>

\* todo.go:38-42
NewTaskBind(r) ==
    /\ pc[r] = "bind"
    /\ bound' = [bound EXCEPT ![r] = TRUE]
    /\ LET b == ShouldBindJSON(body[r])
       IN  IF b.err # "nil"
           THEN /\ resp' = [resp EXCEPT ![r] = JSONError(StatusBadRequest, b.err)]
                /\ pc' = [pc EXCEPT ![r] = "done"]
                /\ UNCHANGED todo
           ELSE /\ todo' = [todo EXCEPT ![r] = b.todo]
                /\ pc' = [pc EXCEPT ![r] = "create"]
                /\ UNCHANGED resp
    /\ UNCHANGED <<hdr, body, dberr, attempts, store, returned>>
    /\ UNCHANGED <<authVars, lifeVars>>

\* todo.go:44
NewTaskCreate(r) ==
    /\ pc[r] = "create"
    /\ \E fail \in BOOLEAN :
          LET c == DbCreate(store, todo[r], fail)
          IN  /\ store' = c.rows
              /\ todo'  = [todo EXCEPT ![r] = c.todo]
              /\ dberr' = [dberr EXCEPT ![r] = c.err]
    /\ attempts' = [attempts EXCEPT ![r] = @ + 1]
    /\ pc' = [pc EXCEPT ![r] = "respond"]
    /\ UNCHANGED <<hdr, body, resp, bound, returned>>
    /\ UNCHANGED <<authVars, lifeVars>>

\* A mutant of NewTaskRespond: a failed insert is answered like a success.
NewTaskRespondIgnoresError(r) ==
    /\ pc[r] = "respond"
    /\ resp' = [resp EXCEPT ![r] = JSONID(StatusCreated, todo[r].ID)]
    /\ returned' = Append(returned, todo[r].ID)
    /\ pc' = [pc EXCEPT ![r] = "done"]
    /\ UNCHANGED <<hdr, body, todo, dberr, bound, attempts, store>>
    /\ UNCHANGED <<authVars, lifeVars>>

\* todo.go:45-53
NewTaskRespond(r) ==
    /\ pc[r] = "respond"
    /\ IF dberr[r] # "nil"
       THEN /\ resp' = [resp EXCEPT ![r] = JSONError(StatusInternalServerError, dberr[r])]
            /\ UNCHANGED returned
       ELSE /\ resp' = [resp EXCEPT ![r] = JSONID(StatusCreated, todo[r].ID)]
            /\ returned' = Append(returned, todo[r].ID)
    /\ pc' = [pc EXCEPT ![r] = "done"]
    /\ UNCHANGED <<hdr, body, todo, dberr, bound, attempts, store>>
    /\ UNCHANGED <<authVars, lifeVars>>

----------------------------------------------------------------------------
(* Initial states *)

HandlerInit ==
    /\ pc       = [r \in Reqs |-> "idle"]
    /\ hdr      = [r \in Reqs |-> NoHeader]
    /\ body     = [r \in Reqs |-> BadJSON]
    /\ todo     = [r \in Reqs |-> ZeroTodo]
    /\ dberr    = [r \in Reqs |-> "nil"]
    /\ resp     = [r \in Reqs |-> NoResp]
    /\ bound    = [r \in Reqs |-> FALSE]
    /\ attempts = [r \in Reqs |-> 0]
    /\ store    = {}
    /\ returned = << >>

AuthIdle ==
    /\ sign    = HardCodedSecret
    /\ tok     = << >>
    /\ verdict = "none"

LifeIdle ==
    /\ mainPc     = "open"
    /\ sigReg     = FALSE
    /\ ctxDone    = FALSE
    /\ listener   = "unstarted"
    /\ conn       = [c \in Conns |-> "none"]
    /\ elapsed    = 0
    /\ exitStatus = -1
    /\ exitCause  = "running"
    /\ atSignal   = {}
    /\ nsig       = 0

Init == HandlerInit /\ AuthIdle /\ LifeIdle

Next ==
    \E r \in Reqs :
        \/ Send(r)
        \/ NewTaskAuth(r)
        \/ NewTaskBind(r)
        \/ NewTaskCreate(r)
        \/ NewTaskRespond(r)

Spec == Init /\ [][Next]_vars

----------------------------------------------------------------------------
(* The process: main (src/main.go:21-78), the ListenAndServe goroutine,   *)
(* the connections it serves, the signals the process is sent and time.   *)

\* 5*time.Second of context.WithTimeout, in seconds
ShutdownTimeout == 5

Signals == {"SIGINT", "SIGTERM"}

\* the signal numbers of syscall.SIGINT and syscall.SIGTERM
Signo(sig) == IF sig = "SIGINT" THEN 2 ELSE 15

Alive == mainPc \notin {"exited", "killed", "panicked"}

Active == {c \in Conns : conn[c] = "active"}

\* main.go:28-46: open the database, migrate, build the routes
MainOpen ==
    /\ mainPc = "open"
    /\ \E ok \in BOOLEAN :
          IF ok
          THEN /\ mainPc' = "notify"
               /\ UNCHANGED <<exitStatus, exitCause>>
          ELSE /\ mainPc' = "panicked"
               /\ exitStatus' = 2
               /\ exitCause' = "panic"
    /\ UNCHANGED <<sigReg, ctxDone, listener, conn, elapsed, atSignal, nsig>>
    /\ UNCHANGED <<handlerVars, authVars>>

\* main.go:48: signal.NotifyContext(..., SIGINT, SIGTERM)
MainNotify ==
    /\ mainPc = "notify"
    /\ sigReg' = TRUE
    /\ mainPc' = "spawn"
    /\ UNCHANGED <<ctxDone, listener, conn, elapsed, exitStatus, exitCause, atSignal, nsig>>
    /\ UNCHANGED <<handlerVars, authVars>>

\* main.go:51-63: build the server and start the goroutine that serves
MainSpawn ==
    /\ mainPc = "spawn"
    /\ listener' = "starting"
    /\ mainPc' = "wait"
    /\ UNCHANGED <<sigReg, ctxDone, conn, elapsed, exitStatus, exitCause, atSignal, nsig>>
    /\ UNCHANGED <<handlerVars, authVars>>

\* main.go:65: <-ctx.Done()
MainWait ==
    /\ mainPc = "wait"
    /\ ctxDone
    /\ mainPc' = "stop"
    /\ UNCHANGED <<sigReg, ctxDone, listener, conn, elapsed, exitStatus, exitCause,
                   atSignal, nsig>>
    /\ UNCHANGED <<handlerVars, authVars>>

\* main.go:66: stop() ends the registration; the signals get their default
\* disposition back
MainStop ==
    /\ mainPc = "stop"
    /\ sigReg' = FALSE
    /\ mainPc' = "callShutdown"
    /\ UNCHANGED <<ctxDone, listener, conn, elapsed, exitStatus, exitCause, atSignal, nsig>>
    /\ UNCHANGED <<handlerVars, authVars>>

\* main.go:67-72: start the 5 second context and enter s.Shutdown, which
\* marks the server as shutting down and closes its listener
MainShutdown ==
    /\ mainPc = "callShutdown"
    /\ elapsed' = 0
    /\ listener' = IF listener = "listening" THEN "closed" ELSE listener
    /\ mainPc' = "shutdown"
    /\ UNCHANGED <<sigReg, ctxDone, conn, exitStatus, exitCause, atSignal, nsig>>
    /\ UNCHANGED <<handlerVars, authVars>>

\* A mutant of ShutdownReturnsNil: Shutdown does not wait for the active
\* connections.
ShutdownReturnsAtOnce ==
    /\ mainPc = "shutdown"
    /\ mainPc' = "exited"
    /\ exitStatus' = 0
    /\ exitCause' = "complete"
    /\ UNCHANGED <<sigReg, ctxDone, listener, conn, elapsed, atSignal, nsig>>
    /\ UNCHANGED <<handlerVars, authVars>>

\* main.go:72-78: s.Shutdown finds no active connection and returns nil;
\* main prints and returns
ShutdownReturnsNil ==
    /\ mainPc = "shutdown"
    /\ Active = {}
    /\ mainPc' = "exited"
    /\ exitStatus' = 0
    /\ exitCause' = "complete"
    /\ UNCHANGED <<sigReg, ctxDone, listener, conn, elapsed, atSignal, nsig>>
    /\ UNCHANGED <<handlerVars, authVars>>

\* A mutant of ShutdownReturnsDeadline: the deadline is not honoured while
\* a connection is active.
ShutdownIgnoresDeadline ==
    /\ mainPc = "shutdown"
    /\ elapsed >= ShutdownTimeout
    /\ Active = {}
    /\ mainPc' = "exited"
    /\ exitStatus' = 0
    /\ exitCause' = "timeout"
    /\ UNCHANGED <<sigReg, ctxDone, listener, conn, elapsed, atSignal, nsig>>
    /\ UNCHANGED <<handlerVars, authVars>>

\* main.go:72-78: ctxTimeout expires; s.Shutdown returns its error, main
\* prints "Server forced to shutdown" and returns all the same
ShutdownReturnsDeadline ==
    /\ mainPc = "shutdown"
    /\ elapsed >= ShutdownTimeout
    /\ mainPc' = "exited"
    /\ exitStatus' = 0
    /\ exitCause' = "timeout"
    /\ UNCHANGED <<sigReg, ctxDone, listener, conn, elapsed, atSignal, nsig>>
    /\ UNCHANGED <<handlerVars, authVars>>

\* A mutant of ListenAndServe: the listener is bound although the server
\* is shutting down.
ListenAndServeAlways ==
    /\ Alive
    /\ listener = "starting"
    /\ listener' = "listening"
    /\ UNCHANGED <<mainPc, sigReg, ctxDone, conn, elapsed, exitStatus, exitCause,
                   atSignal, nsig>>
    /\ UNCHANGED <<handlerVars, authVars>>

\* main.go:59-63: s.ListenAndServe() in its goroutine: ErrServerClosed when
\* Shutdown was called first, else the bind succeeds or fails (logged)
ListenAndServe ==
    /\ Alive
    /\ listener = "starting"
    /\ IF mainPc = "shutdown"
       THEN listener' = "closed"
       ELSE \E ok \in BOOLEAN : listener' = IF ok THEN "listening" ELSE "failed"
    /\ UNCHANGED <<mainPc, sigReg, ctxDone, conn, elapsed, exitStatus, exitCause,
                   atSignal, nsig>>
    /\ UNCHANGED <<handlerVars, authVars>>

\* the server accepts a connection and starts its handler; connections are
\* numbered in the order they are accepted
Accept(c) ==
    /\ Alive
    /\ listener = "listening"
    /\ conn[c] = "none"
    /\ IF c = 1 THEN TRUE ELSE conn[c - 1] # "none"
    /\ conn' = [conn EXCEPT ![c] = "active"]
    /\ UNCHANGED <<mainPc, sigReg, ctxDone, listener, elapsed, exitStatus, exitCause,
                   atSignal, nsig>>
    /\ UNCHANGED <<handlerVars, authVars>>

\* the handler of a connection returns and its response is written
Finish(c) ==
    /\ Alive
    /\ conn[c] = "active"
    /\ conn' = [conn EXCEPT ![c] = "answered"]
    /\ UNCHANGED <<mainPc, sigReg, ctxDone, listener, elapsed, exitStatus, exitCause,
                   atSignal, nsig>>
    /\ UNCHANGED <<handlerVars, authVars>>

\* A mutant of Signal: a signal never ends the process.
SignalNeverKills ==
    /\ Alive
    /\ nsig < MaxSignals
    /\ nsig' = nsig + 1
    /\ IF sigReg /\ ~ctxDone
       THEN /\ ctxDone' = TRUE
            /\ atSignal' = Active
       ELSE UNCHANGED <<ctxDone, atSignal>>
    /\ UNCHANGED <<mainPc, exitStatus, exitCause>>
    /\ UNCHANGED <<sigReg, listener, conn, elapsed>>
    /\ UNCHANGED <<handlerVars, authVars>>

\* The process is sent SIGINT or SIGTERM.  While the registration of
\* main.go:48 is in force the signal cancels ctx (a later one changes
\* nothing); before main.go:48 and after stop() (main.go:66) the signal has
\* its default disposition and ends the process.
Signal ==
    /\ Alive
    /\ nsig < MaxSignals
    /\ nsig' = nsig + 1
    /\ \E sig \in Signals :
          IF sigReg
          THEN /\ IF ~ctxDone
                  THEN /\ ctxDone' = TRUE
                       /\ atSignal' = Active
                  ELSE UNCHANGED <<ctxDone, atSignal>>
               /\ UNCHANGED <<mainPc, exitStatus, exitCause>>
          ELSE /\ mainPc' = "killed"
               /\ exitStatus' = 128 + Signo(sig)
               /\ exitCause' = sig
               /\ UNCHANGED <<ctxDone, atSignal>>
    /\ UNCHANGED <<sigReg, listener, conn, elapsed>>
    /\ UNCHANGED <<handlerVars, authVars>>

\* one second of ctxTimeout passes
Tick ==
    /\ mainPc = "shutdown"
    /\ elapsed < ShutdownTimeout
    /\ elapsed' = elapsed + 1
    /\ UNCHANGED <<mainPc, sigReg, ctxDone, listener, conn, exitStatus, exitCause,
                   atSignal, nsig>>
    /\ UNCHANGED <<handlerVars, authVars>>

LifeNext ==
    \/ MainOpen
    \/ MainNotify
    \/ MainSpawn
    \/ MainWait
    \/ MainStop
    \/ MainShutdown
    \/ ShutdownReturnsNil
    \/ ShutdownReturnsDeadline
    \/ ListenAndServe
    \/ \E c \in Conns : Accept(c) \/ Finish(c)
    \/ Signal
    \/ Tick

LifeSpec == Init /\ [][LifeNext]_vars

\* The Go scheduler runs the main goroutine and time passes: every step of
\* main, and the clock, is taken once it stays enabled.  Handlers are under
\* no such obligation: a request may never complete.
FairLifeSpec ==
    /\ Init /\ [][LifeNext]_vars
    /\ WF_vars(MainOpen)
    /\ WF_vars(MainNotify)
    /\ WF_vars(MainSpawn)
    /\ WF_vars(MainWait)
    /\ WF_vars(MainStop)
    /\ WF_vars(MainShutdown)
    /\ WF_vars(Tick)
    /\ WF_vars(ShutdownReturnsNil)
    /\ WF_vars(ShutdownReturnsDeadline)

\* The controller's phase, read off the main goroutine and the listener.
Phase ==
    IF ~Alive THEN "Exited"
    ELSE IF mainPc = "shutdown" THEN "ShuttingDown"
    ELSE IF listener = "listening" THEN "Serving"
    ELSE "Starting"

----------------------------------------------------------------------------
(* The validator on its own: the process is configured with a secret, a    *)
(* caller presents a token string, auth.Protect judges it.                 *)

TokenStrings ==
    {<<Jwt(a, k, e)>> : a \in Algs, k \in Secrets, e \in BOOLEAN}
        \cup {<< >>, <<Lit("garbage")>>, <<Lit("bearer "), ValidToken>>}

AuthInit ==
    /\ HandlerInit
    /\ LifeIdle
    /\ sign \in Secrets
    /\ tok = << >>
    /\ verdict = "none"

\* a caller presents a token string
Present ==
    /\ \E t \in TokenStrings : tok' = t
    /\ verdict' = "none"
    /\ UNCHANGED sign
    /\ UNCHANGED <<handlerVars, lifeVars>>

\* main.go:88-96 applied to the token string
Validate ==
    /\ verdict = "none"
    /\ verdict' = Protect(tok)
    /\ UNCHANGED <<sign, tok>>
    /\ UNCHANGED <<handlerVars, lifeVars>>

AuthNext == Present \/ Validate

AuthSpec == AuthInit /\ [][AuthNext]_vars

----------------------------------------------------------------------------
(* Properties *)

\* What the validator is required to admit, stated without auth.Protect:
\* one token, of an HMAC method, signed with the key the validator holds,
\* its claims in date.
Admissible(s) ==
    /\ Len(s) = 1
    /\ s[1].kind = "jwt"
    /\ s[1].alg \in {"HS256", "HS384", "HS512"}
    /\ s[1].key = HardCodedSecret
    /\ ~s[1].expired

\* the token string NewTask extracts from the header of request r
TokenOf(r) ==
    IF Len(hdr[r]) >= 1 /\ hdr[r][1] = Lit("Bearer ") THEN Tail(hdr[r]) ELSE hdr[r]

Handled(r) == pc[r] \notin {"idle", "auth"}

IsTextBody(b) == \E s \in Titles : b = TextBody(s)

TitleOf(b) == (CHOOSE m \in b.members : m.key = "text").str

C2_NoHeaderCreated ==
    \A r \in Reqs :
        (pc[r] = "done" /\ hdr[r] = NoHeader /\ IsTextBody(body[r])) =>
            /\ resp[r].status = 201
            /\ resp[r].kind = "ID"

StrictlyIncreasing(q) == \A i, j \in 1..Len(q) : i < j => q[i] < q[j]

StoredOnce(id, title) ==
    /\ Cardinality({row \in store : row.ID = id}) = 1
    /\ \A row \in store : row.ID = id => row.Title = title

\* C3 as stated: every request with a valid token and a body {"text": S} is
\* answered 201 with an ID never returned before and greater than every ID
\* returned earlier, and the store holds one record with that ID and title S.
C3_Original ==
    /\ StrictlyIncreasing(returned)
    /\ \A r \in Reqs :
          (pc[r] = "done" /\ Admissible(TokenOf(r)) /\ IsTextBody(body[r])) =>
              /\ resp[r].status = 201 /\ resp[r].kind = "ID"
              /\ StoredOnce(resp[r].ID, TitleOf(body[r]))

C3_Inv ==
    \A r \in Reqs :
        (pc[r] = "done" /\ Admissible(TokenOf(r)) /\ IsTextBody(body[r])) =>
            IF dberr[r] = "nil"
            THEN /\ resp[r].status = 201 /\ resp[r].kind = "ID"
                 /\ resp[r].ID >= 1
                 /\ StoredOnce(resp[r].ID, TitleOf(body[r]))
                 /\ \A q \in Reqs \ {r} :
                       (pc[q] = "done" /\ resp[q].kind = "ID") => resp[q].ID # resp[r].ID
            ELSE resp[r].status = 500

C3_Step ==
    \A r \in Reqs :
        (pc[r] = "create" /\ pc'[r] = "respond" /\ dberr'[r] = "nil"
            /\ IsTextBody(body[r])) =>
            /\ \A id \in IDs(store) : todo'[r].ID > id
            /\ store' = store \cup {[ID |-> todo'[r].ID, Title |-> TitleOf(body[r])]}

\* C3 amended: a request with a valid token and a body {"text": S} whose
\* insert the store accepts is answered 201 with an ID that no other request
\* is answered with and that is greater than every ID stored before its
\* insert, and the store holds exactly one record with that ID, its title S;
\* when the store rejects the insert the answer is 500.
C3_Amended == [](C3_Inv) /\ [][C3_Step]_vars

\* C3 witness: two requests answered 201, the later answer carrying the
\* smaller ID, one title the empty string.
C3_Witness ==
    /\ Len(returned) = 2 /\ returned[1] > returned[2]
    /\ \E r \in Reqs :
          /\ pc[r] = "done" /\ body[r] = TextBody("")
          /\ resp[r].status = 201
          /\ StoredOnce(resp[r].ID, "")

C5_Inv ==
    \A r \in Reqs :
        /\ attempts[r] <= 1
        /\ (pc[r] \in {"respond", "done"} /\ dberr[r] # "nil") =>
              /\ attempts[r] = 1
              /\ resp[r].status # 201
              /\ pc[r] = "done" =>
                    /\ resp[r].status = 500 /\ resp[r].kind = "error"
                    /\ resp[r].error = dberr[r]

C5_Step ==
    \A r \in Reqs :
        (pc[r] = "create" /\ pc'[r] = "respond" /\ dberr'[r] # "nil") =>
            /\ store' = store
            /\ \A q \in Reqs \ {r} : pc'[q] = pc[q] /\ todo'[q] = todo[q]

\* C5: when the store rejects the insert of an authorized, well-formed
\* request, the handler has made exactly one insert attempt, answers 500
\* with an "error", never 201, and the rejected insert changes neither the
\* store nor any other request.
C5_PersistenceFailure == [](C5_Inv) /\ [][C5_Step]_vars

\* C5 witness: a request was answered 500 and a request that arrived after
\* it was answered 201.
C5_Witness ==
    \E r1, r2 \in Reqs :
        /\ r1 < r2
        /\ pc[r1] = "done" /\ resp[r1].status = 500 /\ attempts[r1] = 1
        /\ pc[r2] = "done" /\ resp[r2].status = 201

\* C6: the validator succeeds for every token signed with the configured
\* secret (SIGN) under an HMAC method, and fails for every token of another
\* method or signed with another secret.
C6_ConfiguredSecret ==
    (verdict # "none" /\ Len(tok) = 1 /\ tok[1].kind = "jwt" /\ ~tok[1].expired) =>
        /\ (IsHMAC(tok[1].alg) /\ tok[1].key = sign) => verdict = "nil"
        /\ (~IsHMAC(tok[1].alg) \/ tok[1].key # sign) => verdict # "nil"

Rank(p) ==
    CASE p = "Starting"     -> 0
      [] p = "Serving"      -> 1
      [] p = "ShuttingDown" -> 2
      [] p = "Exited"       -> 3

C7_Common ==
    /\ Rank(Phase') >= Rank(Phase)
    /\ (Phase # "ShuttingDown" /\ Phase' = "ShuttingDown") => (ctxDone /\ nsig >= 1)
    /\ Phase \in {"ShuttingDown", "Exited"} =>
          /\ listener' # "listening"
          /\ \A c \in Conns : conn[c] = "none" => conn'[c] = "none"

\* C7 as stated: the phase only moves forward, ShuttingDown is entered only
\* after the first signal, ShuttingDown is left for Exited only on shutdown
\* completion or timeout, and nothing is accepted from ShuttingDown on.
C7_Original ==
    [][ /\ C7_Common
        /\ (Phase = "ShuttingDown" /\ Phase' = "Exited") =>
              exitCause' \in {"complete", "timeout"} ]_vars

\* C7 amended: as stated, except that ShuttingDown is also left for Exited
\* when a further SIGINT or SIGTERM, arriving after stop() has ended the
\* registration, ends the process.
C7_Amended ==
    [][ /\ C7_Common
        /\ (Phase = "ShuttingDown" /\ Phase' = "Exited") =>
              \/ exitCause' \in {"complete", "timeout"}
              \/ exitCause' \in Signals /\ ~sigReg /\ nsig' = nsig + 1 /\ nsig >= 1 ]_vars

\* C7 witness: the process went through all four phases and shutdown
\* completed.
C7_Witness ==
    /\ mainPc = "exited" /\ exitCause = "complete"
    /\ listener = "closed"
    /\ \A c \in Conns : conn[c] = "answered"

\* C8 as stated: the process never exits while a request that was in flight
\* at the signal is unanswered, unless 5 seconds of shutdown have passed.
C8_Original ==
    \A c \in atSignal :
        (~Alive /\ conn[c] = "active") => elapsed >= ShutdownTimeout

\* C8 amended: the process never ends while a request that was in flight at
\* the signal is unanswered, unless 5 seconds of shutdown have passed and
\* Shutdown gave up, or a further signal ended the process.
C8_Amended ==
    \A c \in atSignal :
        (~Alive /\ conn[c] = "active") =>
            \/ exitCause = "timeout" /\ elapsed >= ShutdownTimeout
            \/ exitCause \in Signals /\ nsig >= 2

\* C8 witness: requests in flight at the signal were answered during
\* shutdown, before the deadline, and the process then exited.
C8_Witness ==
    /\ mainPc = "exited" /\ exitCause = "complete"
    /\ atSignal # {}
    /\ \A c \in atSignal : conn[c] = "answered"
    /\ elapsed > 0 /\ elapsed < ShutdownTimeout

\* C9 as stated: a signal received while ShuttingDown does not end the
\* process.
C9_Original ==
    [][ (mainPc = "shutdown" /\ nsig' = nsig + 1) => mainPc' = "shutdown" ]_vars

\* C9 amended: a further signal is without effect only while the
\* registration is in force, that is until stop(); from stop() on, and so
\* throughout ShuttingDown, a further signal ends the process at once; short
\* of that the process leaves ShuttingDown only through shutdown completion
\* or the timeout.
C9_Amended ==
    [][ /\ (nsig' = nsig + 1 /\ sigReg) => (mainPc' = mainPc /\ exitStatus' = exitStatus)
        /\ (nsig' = nsig + 1 /\ ~sigReg) => (mainPc' = "killed" /\ exitStatus' > 128)
        /\ mainPc = "shutdown" => ~sigReg
        /\ (mainPc = "shutdown" /\ mainPc' # "shutdown" /\ nsig' = nsig) =>
              (mainPc' = "exited" /\ exitCause' \in {"complete", "timeout"}) ]_vars

\* C9 witness: the second signal ended the process during shutdown while a
\* request was unanswered.
C9_Witness ==
    /\ mainPc = "killed" /\ ctxDone /\ nsig = 2
    /\ elapsed > 0 /\ elapsed < ShutdownTimeout
    /\ Active # {}

\* C10 as stated: once the first signal is caught, the process ends with
\* exit status zero.
C10_Original == (ctxDone /\ ~Alive) => exitStatus = 0

\* C10 amended: once the first signal is caught the process always
\* eventually ends; it ends with status zero (shutdown completed, or the 5
\* second ceiling passed and shutdown was abandoned) unless a further signal
\* arriving after stop() ends it, and then the status is not zero.
C10_Amended ==
    /\ ctxDone ~> ~Alive
    /\ [](mainPc = "exited" => (exitStatus = 0 /\ exitCause \in {"complete", "timeout"}))
    /\ []((ctxDone /\ ~Alive /\ exitStatus # 0) =>
            (mainPc = "killed" /\ ~sigReg /\ nsig >= 2))
    /\ []((mainPc = "exited" /\ Active # {}) =>
            (exitCause = "timeout" /\ elapsed >= ShutdownTimeout))

\* C10 witness: a request never completed, the ceiling passed and the
\* process exited with status zero.
C10_Witness ==
    /\ mainPc = "exited" /\ exitStatus = 0 /\ exitCause = "timeout"
    /\ Active # {}
    /\ nsig = 1

====
